---------------------------- MODULE Spec2Model ----------------------------
(***************************************************************************)
(* A model of rsdocbot: the auto-paginating documentation writer           *)
(* (src/src/docs.rs) and the message / callback handlers that serve the    *)
(* pages (src/src/main.rs, src/src/db.rs).                                 *)
(*                                                                         *)
(* Rendered text is a sequence of tokens <<kind, name, n>>:                *)
(*   <<"txt", id, n>>    literal text with identity id, n counted units    *)
(*   <<"nl", <<>>, 1>>   a line break                                      *)
(*   <<"open", <<s>>, 0>>   an opening marker (<b>, <i>, <a ..>, <code>)   *)
(*   <<"close", <<s>>, 0>>  a closing marker                               *)
(* n is what write_str / line_break add to the writer's `written` counter. *)
(*                                                                         *)
(* A TextPart is a tuple: <<"Text", id, n, raw>> (n: length once runs of   *)
(* whitespace are collapsed, raw: length as given), <<"Image", src>>,      *)
(* <<"Table">>, <<"BeginStyle", style>>, <<"EndStyle">>; a style is        *)
(* <<"Bold">>, ..., <<"Monospaced">> or <<"Link", href>>.                  *)
(* Option values are sequences: <<>> is None, <<x>> is Some(x).            *)
(***************************************************************************)
EXTENDS Integers, Sequences, FiniteSets

None == <<>>

Some(x) == <<x>>

\* Op(v), with v evaluated once, before Op is entered.  The loops below hand
\* their accumulator on through this, so that every iteration is computed
\* when it is reached, as in the code, and not as one nested expression that
\* is unfolded at each use.
Bind(v, Op(_)) == CHOOSE r \in { Op(x) : x \in {v} } : TRUE

\* ------------------------------------------------------------------ bounds
\* Units (paragraphs and item rows) of one Document.
MaxUnits == 3

\* Description sections of one Document.
MaxDescs == 2

\* Item listings of one Document.
MaxListings == 2

\* ------------------------------------------------------- decimal payloads
Digits == <<"0", "1", "2", "3", "4", "5", "6", "7", "8", "9">>

\* usize::to_string
RECURSIVE ToString(_)
ToString(n) ==
    IF n < 10 THEN <<Digits[n + 1]>>
    ELSE ToString(n \div 10) \o <<Digits[(n % 10) + 1]>>

DigitValue(c) == CHOOSE d \in 0..9 : Digits[d + 1] = c

IsDigit(c) == \E d \in 0..9 : Digits[d + 1] = c

RECURSIVE DecimalValue(_)
DecimalValue(s) ==
    IF Len(s) = 0 THEN 0
    ELSE 10 * DecimalValue(SubSeq(s, 1, Len(s) - 1)) + DigitValue(s[Len(s)])

\* str::parse::<usize>: Some(value) for a non-empty string of digits.
ParseUsize(s) ==
    IF Len(s) > 0 /\ \A i \in 1..Len(s) : IsDigit(s[i])
    THEN Some(DecimalValue(s))
    ELSE None

\* ------------------------------------------------------------------ tokens
Txt(id, n) == <<"txt", id, n>>

NL == <<"nl", <<>>, 1>>

OpenTag(s) == <<"open", <<s>>, 0>>

CloseTag(s) == <<"close", <<s>>, 0>>

\* Url::options().base_url(Some(base_url)).parse(href): Some(url) or None.
UrlParse(href) == IF href = "bad" THEN None ELSE Some(href)

\* ------------------------------------------------------ AutoPaginateWriter
Page(text) == [text |-> text, page_keyboard |-> None, additionals |-> <<>>]

New(pages) ==
    [pages |-> pages, buffer |-> <<>>, styles |-> <<>>, in_code |-> FALSE,
     limit |-> 1000, written |-> 0, begin_page |-> Len(pages)]

\* write_str: the counted length is the collapsed one outside code, the raw
\* one inside; the text itself goes to the buffer.
WriteStr(w, id, n, raw) ==
    LET len == IF w.in_code THEN raw ELSE n
    IN  [w EXCEPT !.written = @ + len, !.buffer = Append(@, Txt(id, len))]

Reverse(s) == [i \in 1..Len(s) |-> s[Len(s) + 1 - i]]

Opens(styles) == [i \in 1..Len(styles) |-> styles[i][1]]

Closes(styles) == [i \in 1..Len(styles) |-> styles[i][2]]

PushStyle(w, s) ==
    [w EXCEPT !.buffer = Append(@, OpenTag(s)),
              !.styles = Append(@, <<OpenTag(s), CloseTag(s)>>)]

\* apply_style with a Monospaced that takes the open styles off the stack
\* as it closes them.
ApplyStyleDiscards(w, style) ==
    IF w.in_code THEN w
    ELSE CASE style[1] = "Link" ->
                IF UrlParse(style[2]) # None THEN PushStyle(w, "a") ELSE w
           [] style[1] = "Bold" -> PushStyle(w, "b")
           [] style[1] = "Italic" -> PushStyle(w, "i")
           [] style[1] = "Underline" -> PushStyle(w, "u")
           [] style[1] = "Strikethrough" -> PushStyle(w, "s")
           [] style[1] = "Monospaced" ->
                [w EXCEPT !.buffer = @ \o Reverse(Closes(w.styles))
                                       \o <<OpenTag("code")>>,
                          !.styles = <<>>,
                          !.in_code = TRUE]

ApplyStyle(w, style) ==
    IF w.in_code THEN w
    ELSE CASE style[1] = "Link" ->
                IF UrlParse(style[2]) # None THEN PushStyle(w, "a") ELSE w
           [] style[1] = "Bold" -> PushStyle(w, "b")
           [] style[1] = "Italic" -> PushStyle(w, "i")
           [] style[1] = "Underline" -> PushStyle(w, "u")
           [] style[1] = "Strikethrough" -> PushStyle(w, "s")
           [] style[1] = "Monospaced" ->
                [w EXCEPT !.buffer = @ \o Reverse(Closes(w.styles))
                                       \o <<OpenTag("code")>>,
                          !.in_code = TRUE]

\* remove_style without line 316: the style is popped, its closing tag is
\* not written.
RemoveStyleSilent(w) ==
    IF w.in_code
    THEN [w EXCEPT !.in_code = FALSE,
                   !.buffer = @ \o <<CloseTag("code")>> \o Opens(w.styles)]
    ELSE IF Len(w.styles) > 0
         THEN [w EXCEPT !.styles = SubSeq(@, 1, Len(@) - 1)]
         ELSE w

RemoveStyle(w) ==
    IF w.in_code
    THEN [w EXCEPT !.in_code = FALSE,
                   !.buffer = @ \o <<CloseTag("code")>> \o Opens(w.styles)]
    ELSE IF Len(w.styles) > 0
         THEN [w EXCEPT !.buffer = Append(@, w.styles[Len(w.styles)][2]),
                        !.styles = SubSeq(@, 1, Len(@) - 1)]
         ELSE w

LineBreak(w) ==
    IF w.written < w.limit
    THEN [w EXCEPT !.buffer = Append(@, NL), !.written = @ + 1]
    ELSE w

\* One TextPart as write_title treats it.
TitlePart(w, part) ==
    CASE part[1] = "Text" -> WriteStr(w, part[2], part[3], part[4])
      [] part[1] \in {"Image", "Table"} -> w
      [] part[1] = "BeginStyle" -> ApplyStyle(w, part[2])
      [] part[1] = "EndStyle" -> RemoveStyle(w)

RECURSIVE TitleParts(_, _)
TitleParts(w, run) ==
    IF Len(run) = 0 THEN w
    ELSE Bind(TitlePart(w, Head(run)), LAMBDA w1 : TitleParts(w1, Tail(run)))

WriteTitle(w, title) ==
    LET tmp == w.styles
        in_code == w.in_code
        w1 == TitleParts([w EXCEPT !.styles = <<>>, !.in_code = FALSE], title)
    IN  [w1 EXCEPT !.styles = tmp, !.in_code = in_code]

\* One TextPart as write treats it.
WritePart(w, part) ==
    CASE part[1] = "Text" -> WriteStr(w, part[2], part[3], part[4])
      [] part[1] = "Image" ->
            RemoveStyle(WriteStr(ApplyStyle(w, <<"Link", part[2]>>),
                                 <<"(image)">>, 7, 7))
      [] part[1] = "Table" ->
            RemoveStyle(WriteStr(ApplyStyle(w, <<"Link", "base_url">>),
                                 <<"(table)">>, 7, 7))
      [] part[1] = "BeginStyle" -> ApplyStyle(w, part[2])
      [] part[1] = "EndStyle" -> RemoveStyle(w)

RECURSIVE Write(_, _)
Write(w, run) ==
    IF Len(run) = 0 THEN w
    ELSE Bind(WritePart(w, Head(run)), LAMBDA w1 : Write(w1, Tail(run)))

NewPage(w) ==
    IF w.buffer # <<>>
    THEN [w EXCEPT !.pages = Append(@, Page(w.buffer)), !.buffer = <<>>]
    ELSE w

\* The rendering of one Paragraph (the match in write_paragraphs).
RECURSIVE WriteList(_, _, _)
WriteList(w, list, i) ==
    IF i > Len(list) THEN w
    ELSE Bind(Write(WriteStr(IF i > 1 THEN LineBreak(w) ELSE w,
                             <<"bullet">>, 4, 4),
                    list[i]),
              LAMBDA w1 : WriteList(w1, list, i + 1))

WriteParagraph(w, paragraph) ==
    CASE paragraph[1] = "Text" -> Write(w, paragraph[2])
      [] paragraph[1] = "List" -> WriteList(w, paragraph[2], 1)
      [] paragraph[1] = "Code" ->
            RemoveStyle(Write(ApplyStyle(w, <<"Monospaced">>), paragraph[2]))

\* The rendering of one ItemRow (write_item_rows, lines 431-433).
WriteItemRow(w, row) == Write(LineBreak(Write(w, row.name)), row.summary)

\* The loops without the test of line 398 / 442: a unit always joins the
\* page in progress.
PlaceAlwaysJoins(rendered, title, prev_buf, prev_written, n) ==
    IF n > 0
    THEN LET new_buf == rendered.buffer
             w1 == LineBreak([rendered EXCEPT !.buffer = prev_buf])
         IN  [w |-> [w1 EXCEPT !.buffer = @ \o new_buf,
                               !.written = @ + prev_written + 1],
              n |-> n + 1]
    ELSE [w |-> rendered, n |-> n + 1]

\* The loops without line 407 / 451: the unit that opens a new page is taken
\* out of the buffer and not put back.
PlaceDropsUnit(rendered, title, prev_buf, prev_written, n) ==
    IF n > 0
    THEN IF rendered.written + prev_written + 1 > rendered.limit
         THEN LET w1 == [rendered EXCEPT !.pages = Append(@, Page(prev_buf)),
                                         !.buffer = <<>>]
              IN  [w |-> LineBreak(LineBreak(WriteTitle(w1, title))), n |-> 1]
         ELSE LET new_buf == rendered.buffer
                  w1 == LineBreak([rendered EXCEPT !.buffer = prev_buf])
              IN  [w |-> [w1 EXCEPT !.buffer = @ \o new_buf,
                                    !.written = @ + prev_written + 1],
                   n |-> n + 1]
    ELSE [w |-> rendered, n |-> n + 1]

\* What both loops do around the rendering of a unit: `rendered` is the
\* writer after the unit was written into the emptied buffer, prev_buf and
\* prev_written what the buffer and the counter held before, n the value of
\* written_p / written_rows.  The result is the writer and the counter after
\* the iteration.
Place(rendered, title, prev_buf, prev_written, n) ==
    IF n > 0
    THEN IF rendered.written + prev_written + 1 > rendered.limit
         THEN LET new_buf == rendered.buffer
                  w1 == [rendered EXCEPT !.pages = Append(@, Page(prev_buf)),
                                         !.buffer = <<>>]
                  w2 == LineBreak(LineBreak(WriteTitle(w1, title)))
              IN  [w |-> [w2 EXCEPT !.buffer = @ \o new_buf], n |-> 1]
         ELSE LET new_buf == rendered.buffer
                  w1 == LineBreak([rendered EXCEPT !.buffer = prev_buf])
              IN  [w |-> [w1 EXCEPT !.buffer = @ \o new_buf,
                                    !.written = @ + prev_written + 1],
                   n |-> n + 1]
    ELSE [w |-> rendered, n |-> n + 1]

\* The head of an iteration: the buffer is taken, the counter reset, and the
\* first unit of a page is preceded by the title and two line breaks.
Scratch(w, title, n) ==
    LET w1 == [w EXCEPT !.buffer = <<>>, !.written = 0]
    IN  IF n = 0 THEN LineBreak(LineBreak(WriteTitle(w1, title))) ELSE w1

\* One iteration of the loop of write_paragraphs.
ParagraphStep(w, title, paragraph, written_p) ==
    Bind(WriteParagraph(Scratch(w, title, written_p), paragraph),
         LAMBDA rendered :
            Place(rendered, title, w.buffer, w.written, written_p))

\* One iteration of the loop of write_item_rows.
ItemRowStep(w, title, row, written_rows) ==
    Bind(WriteItemRow(Scratch(w, title, written_rows), row),
         LAMBDA rendered :
            Place(rendered, title, w.buffer, w.written, written_rows))

RECURSIVE ParagraphLoop(_, _, _, _, _)
ParagraphLoop(w, title, paragraphs, i, written_p) ==
    IF i > Len(paragraphs) THEN w
    ELSE Bind(ParagraphStep(w, title, paragraphs[i], written_p),
              LAMBDA r : ParagraphLoop(r.w, title, paragraphs, i + 1, r.n))

WriteParagraphs(w, title, paragraphs) ==
    ParagraphLoop(NewPage(w), title, paragraphs, 1, 0)

RECURSIVE ItemRowLoop(_, _, _, _, _)
ItemRowLoop(w, title, rows, i, written_rows) ==
    IF i > Len(rows) THEN w
    ELSE Bind(ItemRowStep(w, title, rows[i], written_rows),
              LAMBDA r : ItemRowLoop(r.w, title, rows, i + 1, r.n))

WriteItemRows(w, title, rows) ==
    ItemRowLoop(NewPage(w), title, rows, 1, 0)

\* ------------------------------------------------------- navigation rows
\* A button: its label and the callback_data of its Callback kind.  Labels
\* are kept structured: <<"home", a, n>> is the text "(home) a / n",
\* <<"prev", a>> is "< a", <<"next", a>> is "a >".
Button(text, callback_data) == [text |-> text, callback_data |-> callback_data]

Dummy == <<"d", "u", "m", "m", "y">>

\* finalize with payloads counted from the writer's first page instead of
\* the document's.
PageRowRelative(i, begin_page, len) ==
    LET showing == i - begin_page
    IN  IF showing = 0
        THEN << Button(<<"home", 1, len>>, Dummy),
                Button(<<"next", 2>>, ToString(1)) >>
        ELSE IF showing = len - 1
        THEN << Button(<<"prev", len - 1>>, ToString(showing - 1)),
                Button(<<"home", i + 1, len>>, ToString(begin_page)) >>
        ELSE << Button(<<"prev", showing>>, ToString(showing - 1)),
                Button(<<"home", showing + 1, len>>, ToString(begin_page)),
                Button(<<"next", showing + 2>>, ToString(showing + 1)) >>

\* finalize with a home button that names the page it is on.
PageRowHomeSelf(i, begin_page, len) ==
    LET showing == i - begin_page
    IN  IF showing = 0
        THEN << Button(<<"home", 1, len>>, Dummy),
                Button(<<"next", 2>>, ToString(begin_page + 1)) >>
        ELSE IF showing = len - 1
        THEN << Button(<<"prev", len - 1>>, ToString(i - 1)),
                Button(<<"home", i + 1, len>>, ToString(i)) >>
        ELSE << Button(<<"prev", showing>>, ToString(i - 1)),
                Button(<<"home", showing + 1, len>>, ToString(i)),
                Button(<<"next", showing + 2>>, ToString(i + 1)) >>

\* The row finalize builds for the page at absolute index i (0-based) of a
\* writer that began at begin_page and produced len pages.
PageRow(i, begin_page, len) ==
    LET showing == i - begin_page
    IN  IF showing = 0
        THEN << Button(<<"home", 1, len>>, Dummy),
                Button(<<"next", 2>>, ToString(begin_page + 1)) >>
        ELSE IF showing = len - 1
        THEN << Button(<<"prev", len - 1>>, ToString(i - 1)),
                Button(<<"home", i + 1, len>>, ToString(begin_page)) >>
        ELSE << Button(<<"prev", showing>>, ToString(i - 1)),
                Button(<<"home", showing + 1, len>>, ToString(begin_page)),
                Button(<<"next", showing + 2>>, ToString(i + 1)) >>

\* The loop of finalize (lines 489-539) from index i (0-based) on.
RECURSIVE WithPageRows(_, _, _, _)
WithPageRows(pages, begin_page, len, i) ==
    IF i >= Len(pages) THEN <<>>
    ELSE << IF i >= begin_page
            THEN [pages[i + 1] EXCEPT
                    !.page_keyboard = Some(PageRow(i, begin_page, len))]
            ELSE pages[i + 1] >>
         \o WithPageRows(pages, begin_page, len, i + 1)

\* finalize with `len > 0` for the test of line 488.
FinalizeAlways(w) ==
    LET pages == NewPage(w).pages
        len == Len(pages) - w.begin_page
    IN  IF len > 0 THEN WithPageRows(pages, w.begin_page, len, 0) ELSE pages

\* finalize: the pages after the writer is consumed.
Finalize(w) ==
    LET pages == NewPage(w).pages
        len == Len(pages) - w.begin_page
    IN  IF len > 1 THEN WithPageRows(pages, w.begin_page, len, 0) ELSE pages

\* ------------------------------------------------------ additional groups
\* add_additional_autopage with `> 3` for the test of line 145.
AddAdditionalAutopageFour(groups, row) ==
    IF Len(groups) > 0
    THEN IF Len(groups[Len(groups)]) > 3
         THEN Append(groups, <<row>>)
         ELSE [groups EXCEPT ![Len(groups)] = Append(@, row)]
    ELSE Append(groups, <<row>>)

AddAdditionalAutopage(additionals, row) ==
    IF Len(additionals) > 0
    THEN IF Len(additionals[Len(additionals)]) >= 3
         THEN Append(additionals, <<row>>)
         ELSE [additionals EXCEPT ![Len(additionals)] = Append(@, row)]
    ELSE Append(additionals, <<row>>)

\* add_additional_pager without the branch of lines 166-172: the last group
\* is treated as one between.
PagerRowNoLast(i, len) ==
    IF i = 0
    THEN << Button(<<"down">>, <<"x">> \o ToString(i + 1)) >>
    ELSE << Button(<<"down">>, <<"x">> \o ToString(i + 1)),
            Button(<<"up">>, <<"x">> \o ToString(i - 1)) >>

\* The control row add_additional_pager pushes onto group i (0-based) of len.
PagerRow(i, len) ==
    IF i = 0
    THEN << Button(<<"down">>, <<"x">> \o ToString(i + 1)) >>
    ELSE IF i = len - 1
    THEN << Button(<<"up">>, <<"x">> \o ToString(i - 1)) >>
    ELSE << Button(<<"down">>, <<"x">> \o ToString(i + 1)),
            Button(<<"up">>, <<"x">> \o ToString(i - 1)) >>

RECURSIVE WithPagerRows(_, _)
WithPagerRows(additionals, i) ==
    IF i >= Len(additionals) THEN <<>>
    ELSE << Append(additionals[i + 1], PagerRow(i, Len(additionals))) >>
         \o WithPagerRows(additionals, i + 1)

AddAdditionalPager(additionals) ==
    IF Len(additionals) > 1 THEN WithPagerRows(additionals, 0) ELSE additionals

\* text_parts_to_plain: the texts of a run, whitespace collapsed outside code.
RECURSIVE PlainParts(_, _, _)
PlainParts(parts, depth, in_code) ==
    IF Len(parts) = 0 THEN <<>>
    ELSE LET part == Head(parts)
         IN  CASE part[1] = "Text" ->
                    <<Txt(part[2], IF in_code > 0 THEN part[4] ELSE part[3])>>
                    \o PlainParts(Tail(parts), depth, in_code)
               [] part[1] \in {"Image", "Table"} ->
                    PlainParts(Tail(parts), depth, in_code)
               [] part[1] = "BeginStyle" ->
                    PlainParts(Tail(parts), depth + 1,
                               IF part[2][1] = "Monospaced" THEN depth + 1
                               ELSE in_code)
               [] part[1] = "EndStyle" ->
                    PlainParts(Tail(parts), depth - 1,
                               IF in_code = depth THEN 0 ELSE in_code)

TextPartsToPlain(parts) == PlainParts(parts, 0, 0)

\* ------------------------------------------------------------------- Page
\* build_keyboard without lines 21-27: a page with a navigation row shows
\* that row only.
BuildKeyboardNavOnly(page, index) ==
    IF page.page_keyboard # None
    THEN Some(<<page.page_keyboard[1]>>)
    ELSE IF index < Len(page.additionals)
            /\ Len(page.additionals[index + 1]) > 0
         THEN Some(page.additionals[index + 1])
         ELSE None

BuildKeyboard(page, index) ==
    IF page.page_keyboard # None
    THEN Some(<<page.page_keyboard[1]>>
              \o (IF index < Len(page.additionals)
                  THEN page.additionals[index + 1] ELSE <<>>))
    ELSE IF index < Len(page.additionals)
            /\ Len(page.additionals[index + 1]) > 0
         THEN Some(page.additionals[index + 1])
         ELSE None

\* ------------------------------------------------------ build_documentation
\* Lines 79-90: the writer of the lead part after the declaration and the
\* title of a Document without description.
MainHead(document) ==
    LET w0 == New(<<>>)
        w1 == IF document.declaration # None
              THEN Write(LineBreak(LineBreak(WriteTitle(w0, document.title))),
                         document.declaration[1])
              ELSE w0
    IN  IF Len(document.description) = 0
        THEN WriteTitle(w1, document.title)
        ELSE w1

\* The title write_paragraphs is given for a description (line 94).
HeadingOf(description, doc_title) ==
    IF description.heading # None THEN description.heading[1] ELSE doc_title

RECURSIVE MainLoop(_, _, _)
MainLoop(w, document, i) ==
    IF i > Len(document.description) THEN w
    ELSE Bind(WriteParagraphs(w,
                  HeadingOf(document.description[i], document.title),
                  document.description[i].contents),
              LAMBDA w1 : MainLoop(w1, document, i + 1))

\* Lines 111-118: every page from page_num on gets the back-to-main group.
MainRow == << Button(<<"main">>, <<"0">>) >>

RECURSIVE PushMainRow(_, _)
PushMainRow(pages, page_num) ==
    IF Len(pages) <= page_num THEN pages
    ELSE Append(PushMainRow(SubSeq(pages, 1, Len(pages) - 1), page_num),
                [pages[Len(pages)] EXCEPT !.additionals = Append(@, <<MainRow>>)])

\* Lines 119-127: the jump-to-listing row.
ListingRow(heading, page_num) ==
    << Button(<<"listing", TextPartsToPlain(heading)>>, ToString(page_num)) >>

\* One iteration of the loop over document.items: <<pages, main_additionals>>.
ListingStep(pages, main_additionals, item_list) ==
    IF item_list.kind[1] = "Table"
    THEN LET page_num == Len(pages)
             done == Finalize(WriteItemRows(New(pages), item_list.heading,
                                            item_list.kind[2]))
         IN  << PushMainRow(done, page_num),
                AddAdditionalAutopage(main_additionals,
                                      ListingRow(item_list.heading, page_num)) >>
    ELSE <<pages, main_additionals>>

RECURSIVE ListingLoop(_, _, _, _)
ListingLoop(pages, main_additionals, items, i) ==
    IF i > Len(items) THEN <<pages, main_additionals>>
    ELSE Bind(ListingStep(pages, main_additionals, items[i]),
              LAMBDA r : ListingLoop(r[1], r[2], items, i + 1))

\* Lines 136-138 with the last lead page alone given the groups.
SetMainAdditionalsLast(pages, main_end, main_additionals) ==
    IF main_end = 0 THEN pages
    ELSE [pages EXCEPT ![main_end].additionals = main_additionals]

\* Lines 135-138: the lead pages get the finalized groups.
RECURSIVE SetMainAdditionals(_, _, _)
SetMainAdditionals(pages, main_end, main_additionals) ==
    IF main_end = 0 THEN pages
    ELSE [SetMainAdditionals(pages, main_end - 1, main_additionals)
            EXCEPT ![main_end].additionals = main_additionals]

BuildDocumentation(document) ==
    Bind(Finalize(MainLoop(MainHead(document), document, 1)),
         LAMBDA main :
            Bind(ListingLoop(main, <<>>, document.items, 1),
                 LAMBDA r :
                    [pages |-> SetMainAdditionals(r[1], Len(main),
                                                  AddAdditionalPager(r[2]))]))

\* ---------------------------------------------------------------- DocPath
\* Strings are sequences of one-character strings.
IsSpace(c) == c = " "

RECURSIVE TrimStart(_)
TrimStart(s) ==
    IF Len(s) > 0 /\ IsSpace(Head(s)) THEN TrimStart(Tail(s)) ELSE s

RECURSIVE TrimEnd(_)
TrimEnd(s) ==
    IF Len(s) > 0 /\ IsSpace(s[Len(s)])
    THEN TrimEnd(SubSeq(s, 1, Len(s) - 1)) ELSE s

Trim(s) == TrimEnd(TrimStart(s))

\* str::split("::"): always at least one component.
RECURSIVE SplitAt(_, _)
SplitAt(s, i) ==
    IF i + 1 > Len(s) THEN <<s>>
    ELSE IF s[i] = ":" /\ s[i + 1] = ":"
         THEN <<SubSeq(s, 1, i - 1)>> \o SplitAt(SubSeq(s, i + 2, Len(s)), 1)
         ELSE SplitAt(s, i + 1)

Split(s) == SplitAt(s, 1)

AlphaNumeric ==
    {"a", "b", "c", "d", "s", "t", "x", "A", "X", "0", "1", "2", "9"}

IsNotAllowedPathChat(c) == ~(c \in AlphaNumeric \/ c = "_" \/ c = "-")

\* str::find with a predicate: Some(0-based index of the first match).
Find(s) ==
    IF \E i \in 1..Len(s) : IsNotAllowedPathChat(s[i])
    THEN Some((CHOOSE i \in 1..Len(s) :
                  /\ IsNotAllowedPathChat(s[i])
                  /\ \A j \in 1..(i - 1) : ~IsNotAllowedPathChat(s[j])) - 1)
    ELSE None

RECURSIVE ReplaceHyphen(_)
ReplaceHyphen(s) ==
    IF Len(s) = 0 THEN <<>>
    ELSE <<IF Head(s) = "-" THEN "_" ELSE Head(s)>> \o ReplaceHyphen(Tail(s))

RECURSIVE ReplaceAll(_)
ReplaceAll(comps) ==
    IF Len(comps) = 0 THEN <<>>
    ELSE <<ReplaceHyphen(Head(comps))>> \o ReplaceAll(Tail(comps))

DocPathOf(crate_name, comps) ==
    LET modules == <<crate_name>> \o ReplaceAll(comps)
    IN  [crate_name |-> crate_name,
         modules |-> SubSeq(modules, 1, Len(modules) - 1),
         item_name |-> modules[Len(modules)]]

Ok(path) == <<"Ok", path>>

ErrEmpty == <<"Empty">>

ErrInvalidCharAt(i) == <<"InvalidCharAt", i>>

\* The first component from index i on that holds a character not allowed.
RECURSIVE FirstInvalid(_, _)
FirstInvalid(comps, i) ==
    IF i > Len(comps) THEN None
    ELSE IF Find(comps[i]) # None
         THEN Find(comps[i])
         ELSE FirstInvalid(comps, i + 1)

\* impl TryFrom<&str> for DocPath
TryFrom(value) ==
    LET split == Split(Trim(value))
    IN  IF Len(split) = 0 THEN ErrEmpty
        ELSE IF FirstInvalid(split, 1) # None
             THEN ErrInvalidCharAt(FirstInvalid(split, 1)[1])
             ELSE Ok(DocPathOf(split[1], Tail(split)))

\* ------------------------------------------------------------ the inputs
\* The runs, paragraphs and rows the parsing collaborator may hand over:
\* every run balances its BeginStyle / EndStyle.  Texts carry an identity
\* <<"u", s, k, j>>: piece j of unit k of section s.
T(s, k, j, n) == <<"Text", <<"u", s, k, j>>, n, n>>

B(style) == <<"BeginStyle", style>>

E == <<"EndStyle">>

DocTitle == << B(<<"Bold">>), <<"Text", <<"t", 0>>, 5, 5>>, E, <<"Image", "logo">> >>

Heading(s) == << <<"Text", <<"t", s>>, 7, 9>> >>

Declaration ==
    << B(<<"Monospaced">>), <<"Text", <<"d">>, 40, 44>>, E >>

\* A code span with a style nested inside, a link that does not resolve, an
\* image and a table, all inside Bold: 614 units.
ParaMixed(s, k) ==
    <<"Text", << B(<<"Bold">>), T(s, k, 1, 100),
                 B(<<"Monospaced">>), T(s, k, 2, 100),
                 B(<<"Italic">>), T(s, k, 3, 100), E, T(s, k, 4, 100), E,
                 B(<<"Link", "bad">>), T(s, k, 5, 100), E, T(s, k, 6, 100), E,
                 <<"Image", "bad">>, <<"Table">> >> >>

\* A list of two items with nested inline styles and a resolvable link:
\* 4 + 250 + 1 + 4 + 46 = 305 units.
ParaList(s, k) ==
    <<"List", << << B(<<"Bold">>), T(s, k, 1, 200), B(<<"Italic">>),
                    T(s, k, 2, 50), E, E >>,
                 << B(<<"Link", "fn.item.html">>), T(s, k, 3, 46), E >> >> >>

\* A list whose items together exceed the budget.
ParaBigList(s, k) ==
    <<"List", << << T(s, k, 1, 600) >>,
                 << B(<<"Underline">>), T(s, k, 2, 600), E >> >> >>

\* A code block with a style nested in it, whose text has runs of
\* whitespace; under the budget alone (995 units), over it with the title.
ParaCode(s, k) ==
    <<"Code", << <<"Text", <<"u", s, k, 1>>, 980, 985>>,
                 B(<<"Strikethrough">>), T(s, k, 2, 10), E >> >>

Paragraphs(s, k) ==
    { ParaMixed(s, k), ParaList(s, k), ParaBigList(s, k), ParaCode(s, k) }

\* A linked name and a summary with a link that does not resolve inside
\* Bold: 10 + 1 + 50 = 61 units.
RowSmall(s, k) ==
    [name |-> << B(<<"Link", "struct.X.html">>), T(s, k, 1, 10), E >>,
     summary |-> << B(<<"Bold">>), T(s, k, 2, 20),
                    B(<<"Link", "bad">>), T(s, k, 3, 10), E,
                    T(s, k, 4, 20), E >>]

\* 10 + 1 + 856 = 867 units: with two small rows before it, a page of
\* 7 + 2 + 61 + 1 + 61 + 1 + 867 = 1000.
RowBig(s, k) ==
    [name |-> << B(<<"Monospaced">>), T(s, k, 1, 10), E >>,
     summary |-> << T(s, k, 2, 856) >>]

RowHuge(s, k) ==
    [name |-> << T(s, k, 1, 1000) >>, summary |-> << T(s, k, 2, 5) >>]

Rows(s, k) == { RowSmall(s, k), RowBig(s, k), RowHuge(s, k) }

\* The heading of description i: the first block of a page has none.
DescHeadings(i) == IF i = 1 THEN {None} ELSE {Some(Heading(i))}

\* The kinds of a listing that is no table.
OtherKinds == {"Fields"}

EmptyDocument ==
    [title |-> DocTitle, declaration |-> None, description |-> <<>>,
     items |-> <<>>]

\* The units (paragraphs, then rows) of a Document.
RECURSIVE SumLen(_, _)
SumLen(seq, i) == IF i > Len(seq) THEN 0 ELSE Len(seq[i]) + SumLen(seq, i + 1)

UnitCount(document) ==
    SumLen([i \in 1..Len(document.description) |->
                document.description[i].contents], 1)
    + SumLen([i \in 1..Len(document.items) |->
                IF document.items[i].kind[1] = "Table"
                THEN document.items[i].kind[2] ELSE <<>>], 1)

\* ------------------------------------------------- what the bot is asked
\* Replies the service may still number.
MaxMessages == 1

Chats == {1}

Keys == Chats \X (1..MaxMessages)

\* The item paths users type after /docs.
Names ==
    { <<>>, <<" ">>, <<"s", "t", "d">>, <<"a", ":", ":", "b", "-", "c">>,
      <<"a", "!">> }

Paths == { TryFrom(name)[2] : name \in { n \in Names : TryFrom(n)[1] = "Ok" } }

SmallTable(j) ==
    [heading |-> Heading(MaxDescs + j),
     kind |-> <<"Table", << RowSmall(MaxDescs + j, 1) >> >>]

\* Three pages of description and four one-page listings.
DocLong ==
    [title |-> DocTitle, declaration |-> None,
     description |-> << [heading |-> None,
                         contents |-> << ParaMixed(1, 1), ParaMixed(1, 2),
                                         ParaMixed(1, 3) >>] >>,
     items |-> << SmallTable(1), SmallTable(2), SmallTable(3), SmallTable(4) >>]

\* A declaration, a one-page description and a listing of three pages.
DocTable ==
    [title |-> DocTitle, declaration |-> Some(Declaration),
     description |-> << [heading |-> None,
                         contents |-> << ParaList(1, 1) >>] >>,
     items |-> << [heading |-> Heading(MaxDescs + 1),
                   kind |-> <<"Table", << RowBig(MaxDescs + 1, 1),
                                          RowBig(MaxDescs + 1, 2),
                                          RowBig(MaxDescs + 1, 3) >> >>] >>]

\* The Document the remote host's page for a path parses to, when it
\* serves one.
Site ==
    [path \in Paths |->
        IF path.crate_name = <<>> THEN EmptyDocument
        ELSE IF path.modules = <<>> THEN DocLong
        ELSE DocTable]

\* build_documentation of each of them, computed once.
Built == { <<path, BuildDocumentation(Site[path])>> : path \in Paths }

\* How a fetch may end: Ok(None) on 404, Err on a transport failure or any
\* other status, Ok(Some(..)) on 200.
Outcomes == { "None", "Err", "Some" }

\* fetch_documentation
FetchDocumentation(path, outcome) ==
    IF outcome = "Some" THEN <<"Some", (CHOOSE b \in Built : b[1] = path)[2]>> ELSE <<outcome>>

\* The texts of the bot's other replies.
Reply(what) == << Txt(<<what>>, 0) >>

\* Callback payloads: decimal indices, group switches, the inert sentinel.
MaxIndex == 7

CallbackData ==
    { None, Some(Dummy) }
    \cup { Some(ToString(k)) : k \in 0..MaxIndex }
    \cup { Some(<<"x">> \o ToString(g)) : g \in 0..2 }

NoUpdate ==
    [kind |-> "none", key |-> None, data |-> None, request |-> None,
     delivered |-> FALSE, fetched |-> None, text |-> None]

\* ----------------------------------------------------------------- state
VARIABLES
    pc,               \* where build_documentation stands
    document,         \* the part of the Document consumed so far
    ndesc,            \* document.description.len(), known from the start
    w,                \* the AutoPaginateWriter, with the pages it borrows
    title,            \* the title of the section being written
    counter,          \* written_p / written_rows of the running loop
    main_additionals, \* build_documentation's main_additionals
    main_end,         \* build_documentation's main_end
    page_num,         \* page_num of the listing being written
    sec_of,           \* per sealed page, the section that produced it
    cached_docs,      \* Context.cached_docs: DocPath -> Option<Documentation>
    sessions,         \* Context.sessions: (chat_id, message_id) -> Option<Session>
    chat,             \* the bot's messages as the messaging service shows them
    next_id,          \* the message_id the service gives the next message
    last,             \* the update handled last and the request it sent
    additionals,      \* the groups add_additional_autopage / _pager work on
    inserted,         \* the rows handed to add_additional_autopage so far
    paged,            \* whether add_additional_pager has run on the groups
    kb                \* the last build_keyboard call: page, index, markup

bvars == <<pc, document, ndesc, w, title, counter, main_additionals, main_end,
           page_num, sec_of>>

botvars == <<cached_docs, sessions, chat, next_id, last>>

kvars == <<additionals, inserted, paged, kb>>

vars == <<bvars, botvars, kvars>>

\* The section being written: 0 is the head (declaration / bare title),
\* description i is section i, listing j is section MaxDescs + j.
CurrentSection ==
    IF pc = "rows" THEN MaxDescs + Len(document.items)
    ELSE Len(document.description)

\* sec_of, with the pages sealed on the way from w to the pages `after`
\* ascribed to section s.
Ascribe(after, s) ==
    sec_of \o [i \in 1..(Len(after) - Len(sec_of)) |-> s]

\* No group of additional rows is being assembled.
PagerIdle ==
    /\ additionals = <<>>
    /\ inserted = <<>>
    /\ paged = FALSE
    /\ kb = None

\* Context::default(), and a service that shows no message of the bot yet.
BotInit ==
    /\ cached_docs = [path \in Paths |-> None]
    /\ sessions = [key \in Keys |-> None]
    /\ chat = [key \in Keys |-> None]
    /\ next_id = 1
    /\ last = NoUpdate

InitBuild ==
    /\ pc = "new"
    /\ document = EmptyDocument
    /\ ndesc = 0
    /\ w = New(<<>>)
    /\ title = <<>>
    /\ counter = 0
    /\ main_additionals = <<>>
    /\ main_end = 0
    /\ page_num = 0
    /\ sec_of = <<>>
    /\ BotInit
    /\ PagerIdle

\* Lines 74-90.
BeginMain ==
    /\ pc = "new"
    /\ \E declaration \in {None, Some(Declaration)}, n \in 0..MaxDescs :
          /\ document' = [document EXCEPT !.declaration = declaration]
          /\ ndesc' = n
          /\ w' = LET d == [document' EXCEPT
                              !.description = [i \in 1..n |-> <<>>]]
                  IN  MainHead(d)
    /\ pc' = "main"
    /\ UNCHANGED <<title, counter, main_additionals, main_end, page_num, sec_of>>
    /\ UNCHANGED <<botvars, kvars>>

\* write_paragraphs up to its loop (lines 357-359), for the next description.
BeginDescription ==
    /\ pc = "main"
    /\ Len(document.description) < ndesc
    /\ \E heading \in DescHeadings(Len(document.description) + 1) :
          LET description == [heading |-> heading, contents |-> <<>>]
          IN  /\ document' = [document EXCEPT
                                !.description = Append(@, description)]
              /\ title' = HeadingOf(description, document.title)
    /\ w' = NewPage(w)
    /\ sec_of' = Ascribe(w'.pages, CurrentSection)
    /\ counter' = 0
    /\ pc' = "paras"
    /\ UNCHANGED <<ndesc, main_additionals, main_end, page_num>>
    /\ UNCHANGED <<botvars, kvars>>

\* One iteration of the loop of write_paragraphs (lines 360-413).
NextParagraph ==
    /\ pc = "paras"
    /\ UnitCount(document) < MaxUnits
    /\ LET s == Len(document.description)
           k == Len(document.description[s].contents) + 1
       IN  \E paragraph \in Paragraphs(s, k) :
              LET r == ParagraphStep(w, title, paragraph, counter)
              IN  /\ w' = r.w
                  /\ counter' = r.n
                  /\ document' = [document EXCEPT
                        !.description[s].contents = Append(@, paragraph)]
    /\ sec_of' = Ascribe(w'.pages, CurrentSection)
    /\ UNCHANGED <<pc, ndesc, title, main_additionals, main_end, page_num>>
    /\ UNCHANGED <<botvars, kvars>>

\* The loop of write_paragraphs ends.
EndDescription ==
    /\ pc = "paras"
    /\ pc' = "main"
    /\ UNCHANGED <<document, ndesc, w, title, counter, main_additionals,
                   main_end, page_num, sec_of>>
    /\ UNCHANGED <<botvars, kvars>>

\* Lines 99-101: the lead writer is finalized; w becomes what
\* AutoPaginateWriter::new(&mut pages) gives the next writer.
FinalizeMain ==
    /\ pc = "main"
    /\ Len(document.description) = ndesc
    /\ w' = New(Finalize(w))
    /\ main_end' = Len(w'.pages)
    /\ sec_of' = Ascribe(w'.pages, CurrentSection)
    /\ pc' = "items"
    /\ UNCHANGED <<document, ndesc, title, counter, main_additionals, page_num>>
    /\ UNCHANGED <<botvars, kvars>>

\* Lines 104-109 for a Table listing: page_num, the new writer, and
\* write_item_rows up to its loop.
BeginListing ==
    /\ pc = "items"
    /\ Len(document.items) < MaxListings
    /\ LET heading == Heading(MaxDescs + 1 + Len(document.items))
       IN  /\ document' = [document EXCEPT !.items =
                Append(@, [heading |-> heading, kind |-> <<"Table", <<>>>>])]
           /\ title' = heading
    /\ page_num' = Len(w.pages)
    /\ w' = NewPage(New(w.pages))
    /\ counter' = 0
    /\ pc' = "rows"
    /\ UNCHANGED <<ndesc, main_additionals, main_end, sec_of>>
    /\ UNCHANGED <<botvars, kvars>>

\* One iteration of the loop of write_item_rows (lines 420-457).
NextItemRow ==
    /\ pc = "rows"
    /\ UnitCount(document) < MaxUnits
    /\ LET j == Len(document.items)
           k == Len(document.items[j].kind[2]) + 1
       IN  \E row \in Rows(MaxDescs + j, k) :
              LET r == ItemRowStep(w, title, row, counter)
              IN  /\ w' = r.w
                  /\ counter' = r.n
                  /\ document' = [document EXCEPT
                        !.items[j].kind[2] = Append(@, row)]
    /\ sec_of' = Ascribe(w'.pages, CurrentSection)
    /\ UNCHANGED <<pc, ndesc, title, main_additionals, main_end, page_num>>
    /\ UNCHANGED <<botvars, kvars>>

\* Lines 110-127: the listing's writer is finalized, its pages get the
\* back-to-main group and the lead part a jump-to-listing row.
EndListing ==
    /\ pc = "rows"
    /\ w' = New(PushMainRow(Finalize(w), page_num))
    /\ main_additionals' =
          AddAdditionalAutopage(main_additionals,
              ListingRow(document.items[Len(document.items)].heading, page_num))
    /\ sec_of' = Ascribe(w'.pages, CurrentSection)
    /\ pc' = "items"
    /\ UNCHANGED <<document, ndesc, title, counter, main_end, page_num>>
    /\ UNCHANGED <<botvars, kvars>>

\* Lines 129-130: a listing that is no table is passed over.
SkipListing ==
    /\ pc = "items"
    /\ Len(document.items) < MaxListings
    /\ \E kind \in OtherKinds :
          document' = [document EXCEPT !.items =
              Append(@, [heading |-> Heading(MaxDescs + 1 + Len(document.items)),
                         kind |-> <<kind>>])]
    /\ UNCHANGED <<pc, ndesc, w, title, counter, main_additionals, main_end,
                   page_num, sec_of>>
    /\ UNCHANGED <<botvars, kvars>>

\* Lines 135-140.
Finish ==
    /\ pc = "items"
    /\ main_additionals' = AddAdditionalPager(main_additionals)
    /\ w' = New(SetMainAdditionals(w.pages, main_end, main_additionals'))
    /\ pc' = "done"
    /\ UNCHANGED <<document, ndesc, title, counter, main_end, page_num, sec_of>>
    /\ UNCHANGED <<botvars, kvars>>

NextBuild ==
    \/ BeginMain
    \/ BeginDescription
    \/ NextParagraph
    \/ EndDescription
    \/ FinalizeMain
    \/ BeginListing
    \/ NextItemRow
    \/ EndListing
    \/ SkipListing
    \/ Finish

SpecBuild == InitBuild /\ [][NextBuild]_vars

\* The stepwise construction and build_documentation agree.
BuildAgrees == pc = "done" => w.pages = BuildDocumentation(document).pages

\* ------------------------------------------------------------- the handlers
SendMessage(text, keyboard) ==
    [method |-> "sendMessage", text |-> Some(text), keyboard |-> keyboard]

EditMessageText(text, keyboard) ==
    [method |-> "editMessageText", text |-> Some(text), keyboard |-> keyboard]

EditMessageReplyMarkup(keyboard) ==
    [method |-> "editMessageReplyMarkup", text |-> None,
     keyboard |-> Some(keyboard)]

\* on_message without the test of line 65: the Documentation is fetched
\* whether or not the cache has it.
HandleMessageRefetch(text, outcome) ==
    LET quiet == [request |-> None, cache |-> cached_docs, session |-> None,
                  fetched |-> None]
    IN  IF text = None THEN quiet
        ELSE IF text[1].label # "/docs" THEN quiet
        ELSE LET parsed == TryFrom(Trim(text[1].rest))
             IN  CASE parsed[1] = "Ok" ->
                        LET path == parsed[2]
                        IN  IF FALSE
                            THEN [quiet EXCEPT !.request =
                                    Some(SendMessage(
                                        cached_docs[path][1].pages[1].text, None))]
                            ELSE Bind(FetchDocumentation(path, outcome),
                                 LAMBDA fetched :
                                 CASE fetched[1] = "None" ->
                                        [quiet EXCEPT !.request =
                                            Some(SendMessage(
                                                Reply("Cannot find that item."),
                                                None)),
                                            !.fetched = Some(path)]
                                   [] fetched[1] = "Some" ->
                                        LET doc == fetched[2]
                                            page == doc.pages[1]
                                        IN  [request |->
                                                Some(SendMessage(page.text,
                                                     BuildKeyboard(page, 0))),
                                             cache |-> [cached_docs EXCEPT
                                                          ![path] = Some(doc)],
                                             session |->
                                                Some([page |-> 0, path |-> path]),
                                             fetched |-> Some(path)]
                                   [] fetched[1] = "Err" ->
                                        [quiet EXCEPT !.fetched = Some(path)])
                   [] parsed[1] = "Empty" ->
                        [quiet EXCEPT !.request =
                            Some(SendMessage(Reply("Usage: /docs <item path>"),
                                             None))]
                   [] parsed[1] = "InvalidCharAt" ->
                        [quiet EXCEPT !.request =
                            Some(SendMessage(Reply("Item Path Format"), None))]

\* What on_message does with a message: the request it sends (if any), the
\* cache after it, and the session it records once the reply is delivered.
\* text is None or Some([label, rest]) (Command::new); outcome is how
\* fetch_documentation would end; fetched is the path it was called with,
\* if it was called.
HandleMessage(text, outcome) ==
    LET quiet == [request |-> None, cache |-> cached_docs, session |-> None,
                  fetched |-> None]
    IN  IF text = None THEN quiet
        ELSE IF text[1].label # "/docs" THEN quiet
        ELSE LET parsed == TryFrom(Trim(text[1].rest))
             IN  CASE parsed[1] = "Ok" ->
                        LET path == parsed[2]
                        IN  IF cached_docs[path] # None
                            THEN [quiet EXCEPT !.request =
                                    Some(SendMessage(
                                        cached_docs[path][1].pages[1].text, None))]
                            ELSE Bind(FetchDocumentation(path, outcome),
                                 LAMBDA fetched :
                                 CASE fetched[1] = "None" ->
                                        [quiet EXCEPT !.request =
                                            Some(SendMessage(
                                                Reply("Cannot find that item."),
                                                None)),
                                            !.fetched = Some(path)]
                                   [] fetched[1] = "Some" ->
                                        LET doc == fetched[2]
                                            page == doc.pages[1]
                                        IN  [request |->
                                                Some(SendMessage(page.text,
                                                     BuildKeyboard(page, 0))),
                                             cache |-> [cached_docs EXCEPT
                                                          ![path] = Some(doc)],
                                             session |->
                                                Some([page |-> 0, path |-> path]),
                                             fetched |-> Some(path)]
                                   [] fetched[1] = "Err" ->
                                        [quiet EXCEPT !.fetched = Some(path)])
                   [] parsed[1] = "Empty" ->
                        [quiet EXCEPT !.request =
                            Some(SendMessage(Reply("Usage: /docs <item path>"),
                                             None))]
                   [] parsed[1] = "InvalidCharAt" ->
                        [quiet EXCEPT !.request =
                            Some(SendMessage(Reply("Item Path Format"), None))]

Texts ==
    { None, Some([label |-> "/start", rest |-> <<>>]) }
    \cup { Some([label |-> "/docs", rest |-> name]) : name \in Names }

\* on_message; `ok` is whether api.send_json delivers the request.
OnMessage ==
    /\ next_id <= MaxMessages
    /\ \E chat_id \in Chats, text \in Texts, outcome \in Outcomes,
          ok \in BOOLEAN :
          \E h \in { HandleMessage(text, outcome) } :
          LET key == <<chat_id, next_id>>
              sent == h.request # None /\ ok
          IN  /\ cached_docs' = h.cache
              /\ chat' = IF sent
                         THEN [chat EXCEPT ![key] =
                                  Some([text |-> h.request[1].text[1],
                                        keyboard |-> h.request[1].keyboard])]
                         ELSE chat
              /\ next_id' = IF sent THEN next_id + 1 ELSE next_id
              /\ sessions' = IF sent /\ h.session # None
                             THEN [sessions EXCEPT ![key] = h.session]
                             ELSE sessions
              /\ last' = [kind |-> "message",
                          key |-> IF sent THEN Some(key) ELSE None,
                          data |-> None, request |-> h.request,
                          delivered |-> sent, fetched |-> h.fetched,
                          text |-> text]
    /\ UNCHANGED <<bvars, kvars>>

\* on_callback with the keyboard of a jump built from the page the session
\* records instead of the page jumped to.
HandleCallbackSessionPage(message, data) ==
    IF message = None THEN None
    ELSE LET session == sessions[message[1]]
         IN  IF session = None THEN None
             ELSE LET jump == IF data # None THEN ParseUsize(data[1]) ELSE None
                      switch == IF data # None /\ Len(data[1]) >= 1
                                THEN ParseUsize(Tail(data[1])) ELSE None
                      doc == cached_docs[session[1].path]
                  IN  IF jump # None
                      THEN IF doc # None /\ jump[1] < Len(doc[1].pages)
                           THEN LET page == doc[1].pages[jump[1] + 1]
                                    recorded == doc[1].pages[session[1].page + 1]
                                IN  Some(EditMessageText(page.text,
                                         BuildKeyboard(recorded, 0)))
                           ELSE None
                      ELSE IF switch # None
                      THEN IF doc # None /\ session[1].page < Len(doc[1].pages)
                           THEN LET page == doc[1].pages[session[1].page + 1]
                                    keyboard == BuildKeyboard(page, switch[1])
                                IN  IF keyboard # None
                                    THEN Some(EditMessageReplyMarkup(keyboard[1]))
                                    ELSE None
                           ELSE None
                      ELSE None

\* The request on_callback sends for a callback on `message` (None or
\* Some(key)) with payload `data` (None or Some(string)), if any.
HandleCallback(message, data) ==
    IF message = None THEN None
    ELSE LET session == sessions[message[1]]
         IN  IF session = None THEN None
             ELSE LET jump == IF data # None THEN ParseUsize(data[1]) ELSE None
                      switch == IF data # None /\ Len(data[1]) >= 1
                                THEN ParseUsize(Tail(data[1])) ELSE None
                      doc == cached_docs[session[1].path]
                  IN  IF jump # None
                      THEN IF doc # None /\ jump[1] < Len(doc[1].pages)
                           THEN LET page == doc[1].pages[jump[1] + 1]
                                IN  Some(EditMessageText(page.text,
                                                         BuildKeyboard(page, 0)))
                           ELSE None
                      ELSE IF switch # None
                      THEN IF doc # None /\ session[1].page < Len(doc[1].pages)
                           THEN LET page == doc[1].pages[session[1].page + 1]
                                    keyboard == BuildKeyboard(page, switch[1])
                                IN  IF keyboard # None
                                    THEN Some(EditMessageReplyMarkup(keyboard[1]))
                                    ELSE None
                           ELSE None
                      ELSE None

\* ---------------------------------- a served message under the callbacks
\* What a message of the bot displays: the index of the page whose text it
\* shows, and the keyboard under it.  The first reply to /docs (main.rs,
\* lines 81-89):
FirstReply(pages) ==
    [page |-> 0, keyboard |-> BuildKeyboard(pages[1], 0)]

\* The payloads of the buttons of a keyboard.
ButtonData(keyboard) ==
    IF keyboard = None THEN {}
    ELSE UNION { { keyboard[1][r][b].callback_data :
                     b \in 1..Len(keyboard[1][r]) } :
                 r \in 1..Len(keyboard[1]) }

\* What the message displays after on_callback handled the payload `data`
\* for it, the request being delivered: a decimal index in range shows
\* that page with its build_keyboard(0); a group switch shows
\* build_keyboard(group) of the page the session records, which is page 0
\* as inserted (main.rs, lines 91-95) since nothing writes it again.
Pressed(pages, shown, data) ==
    LET jump == ParseUsize(data)
        switch == IF Len(data) >= 1 THEN ParseUsize(Tail(data)) ELSE None
    IN  IF jump # None
        THEN IF jump[1] < Len(pages)
             THEN [page |-> jump[1],
                   keyboard |-> BuildKeyboard(pages[jump[1] + 1], 0)]
             ELSE shown
        ELSE IF switch # None
        THEN IF BuildKeyboard(pages[1], switch[1]) # None
             THEN [shown EXCEPT !.keyboard = BuildKeyboard(pages[1], switch[1])]
             ELSE shown
        ELSE shown

\* What the message can be brought to display by pressing buttons it
\* displays, from the states `frontier` on.
RECURSIVE Reachable(_, _, _)
Reachable(pages, seen, frontier) ==
    IF frontier = {} THEN seen
    ELSE LET next == UNION { { Pressed(pages, shown, data) :
                                 data \in ButtonData(shown.keyboard) } :
                             shown \in frontier }
         IN  Reachable(pages, seen \cup frontier, next \ (seen \cup frontier))

\* What the service shows for a message after an edit request.
Edited(shown, request) ==
    IF request.method = "editMessageText"
    THEN [text |-> request.text[1], keyboard |-> request.keyboard]
    ELSE [shown EXCEPT !.keyboard = request.keyboard]

\* on_callback, for a callback that comes from one of the bot's messages
\* (or carries no message at all).
OnCallback ==
    /\ \E message \in {None} \cup { Some(key) : key \in { k \in Keys : chat[k] # None } },
          data \in CallbackData, ok \in BOOLEAN :
          LET request == HandleCallback(message, data)
              sent == request # None /\ ok
          IN  /\ chat' = IF sent
                         THEN [chat EXCEPT ![message[1]] =
                                  Some(Edited(chat[message[1]][1], request[1]))]
                         ELSE chat
              /\ last' = [kind |-> "callback", key |-> message, data |-> data,
                          request |-> request, delivered |-> sent,
                          fetched |-> None, text |-> None]
    /\ UNCHANGED <<cached_docs, sessions, next_id>>
    /\ UNCHANGED <<bvars, kvars>>

Init ==
    /\ BotInit
    /\ pc = "new"
    /\ document = EmptyDocument
    /\ ndesc = 0
    /\ w = New(<<>>)
    /\ title = <<>>
    /\ counter = 0
    /\ main_additionals = <<>>
    /\ main_end = 0
    /\ page_num = 0
    /\ sec_of = <<>>
    /\ PagerIdle

Next ==
    \/ OnMessage
    \/ OnCallback

\* The bot: main's loop over the updates.
Spec == Init /\ [][Next]_vars

\* ------------------------------------------- the groups of additional rows
\* Jump rows handed to add_additional_autopage.
MaxRows == 7

\* The largest group index build_keyboard is asked for.
MaxGroupIndex == 3

InitPager ==
    /\ PagerIdle
    /\ BotInit
    /\ pc = "new"
    /\ document = EmptyDocument
    /\ ndesc = 0
    /\ w = New(<<>>)
    /\ title = <<>>
    /\ counter = 0
    /\ main_additionals = <<>>
    /\ main_end = 0
    /\ page_num = 0
    /\ sec_of = <<>>

\* The first page of the listing after the one `inserted` ends with, when
\* that one took `took` pages (the lead part, before the first listing).
NextPageNum(took) ==
    IF inserted = <<>> THEN took
    ELSE ParseUsize(inserted[Len(inserted)][1].callback_data)[1] + took

\* Lines 119-127: the jump row of one more table listing is added.
AddListing ==
    /\ ~paged
    /\ Len(inserted) < MaxRows
    /\ \E took \in 1..2 :
          LET row == ListingRow(Heading(MaxDescs + 1 + Len(inserted)),
                                NextPageNum(took))
          IN  /\ additionals' = AddAdditionalAutopage(additionals, row)
              /\ inserted' = Append(inserted, row)
    /\ UNCHANGED <<paged, kb>>
    /\ UNCHANGED <<bvars, botvars>>

\* Line 135.
RunPager ==
    /\ ~paged
    /\ additionals' = AddAdditionalPager(additionals)
    /\ paged' = TRUE
    /\ UNCHANGED <<inserted, kb>>
    /\ UNCHANGED <<bvars, botvars>>

\* The pages build_keyboard meets in a built Documentation: a lead page
\* carries the finalized groups, a listing page the back-to-main group;
\* either has a navigation row when its writer produced several pages.
KeyboardPages ==
    { [text |-> <<>>, page_keyboard |-> page_keyboard, additionals |-> groups] :
        page_keyboard \in { None, Some(PageRow(0, 0, 2)), Some(PageRow(4, 3, 3)) },
        groups \in { additionals, << <<MainRow>> >> } }

\* page.build_keyboard(index) on a page of a built Documentation.
Keyboard ==
    /\ paged
    /\ \E page \in KeyboardPages, index \in 0..MaxGroupIndex :
          kb' = Some([page |-> page, index |-> index,
                      markup |-> BuildKeyboard(page, index)])
    /\ UNCHANGED <<additionals, inserted, paged>>
    /\ UNCHANGED <<bvars, botvars>>

NextPager ==
    \/ AddListing
    \/ RunPager
    \/ Keyboard

\* add_additional_autopage, add_additional_pager and build_keyboard at work
\* on the groups of one Documentation.
SpecPager == InitPager /\ [][NextPager]_vars

\* ------------------------------------------------------ reading the pages
\* The counted length of a text: what write_str and line_break add up.
RECURSIVE TextLen(_)
TextLen(text) ==
    IF Len(text) = 0 THEN 0 ELSE Head(text)[3] + TextLen(Tail(text))

IsUnitText(tok) == tok[1] = "txt" /\ tok[2][1] = "u"

IsTitleText(tok) == tok[1] = "txt" /\ tok[2][1] = "t"

\* The units (section, position) that have text in `text`.
UnitsOn(text) ==
    { <<text[i][2][2], text[i][2][3]>> :
        i \in { j \in 1..Len(text) : IsUnitText(text[j]) } }

TitleLen(text) == TextLen(SelectSeq(text, IsTitleText))

\* The line breaks between the title and the first text after it.
RECURSIVE LeadBreaks(_)
LeadBreaks(text) ==
    IF Len(text) = 0 THEN 0
    ELSE IF Head(text)[1] = "nl" THEN 1 + LeadBreaks(Tail(text))
    ELSE IF Head(text)[1] = "txt" /\ ~IsTitleText(Head(text)) THEN 0
    ELSE LeadBreaks(Tail(text))

\* What a page holds besides its title and the breaks after it.
BodyLen(text) == TextLen(text) - TitleLen(text) - LeadBreaks(text)

\* The tags of `text` from token i on nest and close, given those open.
RECURSIVE Nests(_, _, _)
Nests(text, i, open) ==
    IF i > Len(text) THEN open = <<>>
    ELSE CASE text[i][1] = "open" -> Nests(text, i + 1, Append(open, text[i][2]))
           [] text[i][1] = "close" ->
                /\ open # <<>>
                /\ open[Len(open)] = text[i][2]
                /\ Nests(text, i + 1, SubSeq(open, 1, Len(open) - 1))
           [] OTHER -> Nests(text, i + 1, open)

Balanced(text) == Nests(text, 1, <<>>)

HasTag(text, tok) == \E i \in 1..Len(text) : text[i] = tok

RECURSIVE Concat(_, _)
Concat(seqs, i) ==
    IF i > Len(seqs) THEN <<>> ELSE seqs[i] \o Concat(seqs, i + 1)

\* The identities of the unit texts of `text`, in order.
PiecesOf(text) ==
    LET kept == SelectSeq(text, IsUnitText)
    IN  [i \in 1..Len(kept) |-> kept[i][2]]

\* The identities of the texts of a run, in order.
RunPieces(run) ==
    LET kept == SelectSeq(run, LAMBDA part : part[1] = "Text")
    IN  [i \in 1..Len(kept) |-> kept[i][2]]

ParagraphPieces(paragraph) ==
    IF paragraph[1] = "List"
    THEN Concat([i \in 1..Len(paragraph[2]) |-> RunPieces(paragraph[2][i])], 1)
    ELSE RunPieces(paragraph[2])

RowPieces(row) == RunPieces(row.name) \o RunPieces(row.summary)

\* The unit texts the Document consumed so far asks for, in order.
DocumentPieces ==
    Concat([i \in 1..Len(document.description) |->
              Concat([k \in 1..Len(document.description[i].contents) |->
                        ParagraphPieces(document.description[i].contents[k])],
                     1)], 1)
    \o Concat([j \in 1..Len(document.items) |->
                 IF document.items[j].kind[1] = "Table"
                 THEN Concat([k \in 1..Len(document.items[j].kind[2]) |->
                                RowPieces(document.items[j].kind[2][k])], 1)
                 ELSE <<>>], 1)

\* The texts the writer holds: the sealed pages, then the buffer.
Held == [i \in 1..Len(w.pages) |-> w.pages[i].text] \o <<w.buffer>>

\* ------------------------------------------------------------- properties
\* C1: whatever balanced runs were fed, the text of every page has its tags
\* nested and closed on that page, in LIFO order; and between units, where
\* pages are sealed, the style stack is empty and code-mode is off.
C1_MarkupBalanced ==
    /\ \A i \in 1..Len(Held) : Balanced(Held[i])
    /\ w.styles = <<>>
    /\ ~w.in_code

\* C1: a finished build with several pages, one of which closed and
\* reopened a style around a code span.
C1_Witness ==
    /\ pc = "done"
    /\ Len(w.pages) >= 2
    /\ \E i \in 1..Len(w.pages) :
          /\ HasTag(w.pages[i].text, OpenTag("code"))
          /\ HasTag(w.pages[i].text, CloseTag("b"))
          /\ HasTag(w.pages[i].text, CloseTag("a"))

\* C2, as the specification states it: every page counts at most 1000,
\* except a page that holds exactly one unit which alone counts more.
C2_Budget ==
    \A i \in 1..Len(w.pages) :
        LET text == w.pages[i].text
        IN  \/ TextLen(text) <= 1000
            \/ /\ Cardinality(UnitsOn(text)) = 1
               /\ BodyLen(text) > 1000

\* C2, as the code has it: a page that holds two or more units counts at
\* most 1000; a page that holds exactly one unit counts more only when the
\* section title, the two line breaks after it and the unit together do.
\* Pages that hold no unit (the declaration, a bare title) are not bounded.
C2_BudgetWithTitle ==
    \A i \in 1..Len(w.pages) :
        LET text == w.pages[i].text
        IN  Cardinality(UnitsOn(text)) >= 1 =>
                \/ TextLen(text) <= 1000
                \/ /\ Cardinality(UnitsOn(text)) = 1
                   /\ TitleLen(text) + 2 + BodyLen(text) > 1000

\* C2: a finished build with a page of several units and a page over the
\* budget whose only unit is under it.
C2_Witness ==
    /\ pc = "done"
    /\ \E i \in 1..Len(w.pages) : Cardinality(UnitsOn(w.pages[i].text)) >= 2
    /\ \E i \in 1..Len(w.pages) :
          /\ Cardinality(UnitsOn(w.pages[i].text)) = 1
          /\ TextLen(w.pages[i].text) > 1000
          /\ BodyLen(w.pages[i].text) <= 1000

\* C3: the pages (and the buffer that becomes the last page) hold the unit
\* texts fed so far, each once and in the order fed; no unit has text in
\* two of them; and every page a section produced holds a unit.
C3_UnitsPartitioned ==
    /\ Concat([i \in 1..Len(Held) |-> PiecesOf(Held[i])], 1) = DocumentPieces
    /\ \A i, j \in 1..Len(Held) :
          i # j => UnitsOn(Held[i]) \cap UnitsOn(Held[j]) = {}
    /\ \A i \in 1..Len(w.pages) :
          (i <= Len(sec_of) /\ sec_of[i] > 0) => UnitsOn(w.pages[i].text) # {}

\* C3: a finished build in which one section spread over two pages and a
\* page holds two units.
C3_Witness ==
    /\ pc = "done"
    /\ \E i, j \in 1..Len(sec_of) : i # j /\ sec_of[i] = sec_of[j] /\ sec_of[i] > 0
    /\ \E i \in 1..Len(w.pages) : Cardinality(UnitsOn(w.pages[i].text)) >= 2

\* ------------------------------------------------ reading the keyboards
\* The buttons of a row whose label is of the given kind.
ButtonsOf(row, kind) ==
    { row[i] : i \in { j \in 1..Len(row) : row[j].text[1] = kind } }

HomeOf(row) == CHOOSE b \in ButtonsOf(row, "home") : TRUE

\* The page indices the buttons of a kind name.
TargetsOf(row, kind) ==
    { ParseUsize(b.callback_data) : b \in ButtonsOf(row, kind) }

\* The writer that produced page i (1-based): 0 is the lead writer, which
\* writes the declaration and every description; MaxDescs + j is the writer
\* of listing j.
RunOf(i) == IF i <= main_end THEN 0 ELSE sec_of[i]

RunPages(r) == { i \in 1..Len(w.pages) : RunOf(i) = r }

Runs == { RunOf(i) : i \in 1..Len(w.pages) }

\* The pages of Section s: description s, or listing s - MaxDescs.
SectionPages(s) == { i \in 1..Len(w.pages) : sec_of[i] = s }

Sections == { sec_of[i] : i \in 1..Len(w.pages) } \ {0}

First(P) == CHOOSE i \in P : \A j \in P : i <= j

\* Every writer has been finalized.
Finalized == pc \in {"items", "done"}

\* C6: in a run of N > 1 pages, the home button of the page at position i
\* (0-based) of the run reads i+1 / N, wherever the run starts.
C6_HomeLabels ==
    Finalized =>
        \A r \in Runs :
            LET P == RunPages(r)
                N == Cardinality(P)
            IN  N > 1 =>
                    \A i \in P :
                        /\ w.pages[i].page_keyboard # None
                        /\ HomeOf(w.pages[i].page_keyboard[1]).text
                              = <<"home", i - First(P) + 1, N>>

C9_RowsPerSection ==
    Finalized =>
        \A s \in Sections :
            LET P == SectionPages(s)
                N == Cardinality(P)
            IN  \A i \in P :
                    /\ w.pages[i].page_keyboard # None <=> N > 1
                    /\ w.pages[i].page_keyboard # None =>
                          HomeOf(w.pages[i].page_keyboard[1]).text[3] = N

\* C9, as the code has it: the pages one writer produced carry a row
\* exactly when that writer produced more than one page, and the row counts
\* the writer's pages.  The lead writer's pages are the declaration page and
\* the pages of all descriptions together; each listing has its own writer.
C9_RowsPerWriter ==
    Finalized =>
        \A r \in Runs :
            LET P == RunPages(r)
                N == Cardinality(P)
            IN  \A i \in P :
                    /\ w.pages[i].page_keyboard # None <=> N > 1
                    /\ w.pages[i].page_keyboard # None =>
                          HomeOf(w.pages[i].page_keyboard[1]).text[3] = N

\* C9: a finished build whose lead part is a declaration page and two
\* descriptions of one page each, all three with a row, and a listing of
\* one page without one.
C9_Witness ==
    /\ pc = "done"
    /\ document.declaration # None
    /\ Cardinality(RunPages(0)) = 3
    /\ Cardinality(SectionPages(1)) = 1
    /\ Cardinality(SectionPages(2)) = 1
    /\ \A i \in RunPages(0) : w.pages[i].page_keyboard # None
    /\ \E r \in Runs \ {0} :
          /\ Cardinality(RunPages(r)) = 1
          /\ \A i \in RunPages(r) : w.pages[i].page_keyboard = None

\* ------------------------------------------------------ reading the chat
\* The pages of the Documentation the session of message `key` points at.
PagesFor(key) == cached_docs[sessions[key][1].path][1].pages

\* Message `key` is one the bot can serve callbacks for.
Served(key) ==
    /\ sessions[key] # None
    /\ cached_docs[sessions[key][1].path] # None

\* The index (0-based) of the page whose text message `key` displays.
Displayed(key) ==
    CHOOSE k \in 0..(Len(PagesFor(key)) - 1) :
        PagesFor(key)[k + 1].text = chat[key][1].text

IsJump(data) == data # None /\ ParseUsize(data[1]) # None

IsSwitch(data) ==
    /\ data # None
    /\ ParseUsize(data[1]) = None
    /\ Len(data[1]) >= 1
    /\ ParseUsize(Tail(data[1])) # None

\* C4: a callback whose payload is one character and then a decimal g is
\* answered with build_keyboard(g) of the page the message displays, as a
\* change of the keyboard alone, whatever jumps came before.
C4_SwitchKeepsPage ==
    (/\ last.kind = "callback"
     /\ IsSwitch(last.data)
     /\ last.key # None
     /\ Served(last.key[1]))
    => LET key == last.key[1]
           g == ParseUsize(Tail(last.data[1]))[1]
           keyboard == BuildKeyboard(PagesFor(key)[Displayed(key) + 1], g)
       IN  last.request =
              IF keyboard # None
              THEN Some(EditMessageReplyMarkup(keyboard[1]))
              ELSE None

\* C5: the page index a session records is the index of the page its
\* message displays.
C5_SessionPage ==
    \A key \in Keys :
        (chat[key] # None /\ Served(key)) =>
            sessions[key][1].page = Displayed(key)

\* The row of page i (1-based) of `pages` has no prev button: the page is
\* the first one of its writer.
OpensRun(pages, i) ==
    /\ pages[i].page_keyboard # None
    /\ ButtonsOf(pages[i].page_keyboard[1], "prev") = {}

\* The first page (1-based) of the writer that produced page i.
RunStart(pages, i) ==
    CHOOSE b \in 1..i :
        /\ OpensRun(pages, b)
        /\ \A c \in (b + 1)..i : ~OpensRun(pages, c)

Cached == { path \in Paths : cached_docs[path] # None }

\* C7, as the specification states it: the home button of every page that
\* carries a navigation row has the sentinel for its payload.
C7_HomeInert ==
    \A path \in Cached :
        LET pages == cached_docs[path][1].pages
        IN  \A i \in 1..Len(pages) :
                pages[i].page_keyboard # None =>
                    HomeOf(pages[i].page_keyboard[1]).callback_data = Dummy

\* The home button has the sentinel on the first page of a writer's pages
\* and names that first page on every other one.
HomePayloads ==
    \A path \in Cached :
        LET pages == cached_docs[path][1].pages
        IN  \A i \in 1..Len(pages) :
                pages[i].page_keyboard # None =>
                    LET home == HomeOf(pages[i].page_keyboard[1])
                    IN  IF OpensRun(pages, i)
                        THEN home.callback_data = Dummy
                        ELSE ParseUsize(home.callback_data)
                                = Some(RunStart(pages, i) - 1)

\* A callback that carries the sentinel sends nothing and changes nothing.
SentinelStep ==
    (last'.kind = "callback" /\ last'.data = Some(Dummy)) =>
        /\ last'.request = None
        /\ UNCHANGED <<chat, sessions, cached_docs, next_id>>

\* C7, as the code has it: the home button is inert on the first page of a
\* writer's pages only; on the interior and last pages its payload is the
\* index of that first page, so that it jumps there.  A callback that
\* carries the sentinel changes neither what is displayed nor any session
\* or cache.
C7_HomeInertOnFirst == []HomePayloads /\ [][SentinelStep]_vars

\* C7: the sentinel arrived for a served message that displays a first
\* page, while the Documentation has interior and last pages too.
C7_Witness ==
    /\ last.kind = "callback"
    /\ last.data = Some(Dummy)
    /\ last.key # None
    /\ Served(last.key[1])
    /\ Len(PagesFor(last.key[1])) >= 3
    /\ chat[last.key[1]][1].keyboard # None
    /\ \E i \in 1..Len(chat[last.key[1]][1].keyboard[1][1]) :
          chat[last.key[1]][1].keyboard[1][1][i].callback_data = Dummy
    /\ \E i \in 1..Len(PagesFor(last.key[1])) :
          /\ PagesFor(last.key[1])[i].page_keyboard # None
          /\ ~OpensRun(PagesFor(last.key[1]), i)

\* What C10 asks of one step of on_callback.
JumpStep ==
    (last'.kind = "callback" /\ IsJump(last'.data)) =>
        LET k == ParseUsize(last'.data[1])[1]
            message == last'.key
        IN  IF /\ message # None
               /\ Served(message[1])
               /\ k < Len(PagesFor(message[1]))
            THEN LET page == PagesFor(message[1])[k + 1]
                     content == [text |-> page.text,
                                 keyboard |-> BuildKeyboard(page, 0)]
                 IN  /\ last'.request =
                           Some([method |-> "editMessageText",
                                 text |-> Some(content.text),
                                 keyboard |-> content.keyboard])
                     /\ chat' = IF last'.delivered
                                THEN [chat EXCEPT ![message[1]] = Some(content)]
                                ELSE chat
                     /\ UNCHANGED <<sessions, cached_docs, next_id>>
            ELSE /\ last'.request = None
                 /\ UNCHANGED <<chat, sessions, cached_docs, next_id>>

\* C10: a callback whose payload is a decimal k, on a message with a
\* session whose Documentation is cached, replaces the content of the
\* message by the text of page k and build_keyboard(0) of page k when k is
\* a page index; when k is out of range, or there is no session or no
\* cached Documentation, nothing is sent and nothing changes.
C10_Jump == [][JumpStep]_vars

\* C10: a jump to a page other than the first was delivered, and the
\* message displays that page with its first additional group.
C10_Witness ==
    /\ last.kind = "callback"
    /\ IsJump(last.data)
    /\ last.delivered
    /\ ParseUsize(last.data[1])[1] >= 1
    /\ Served(last.key[1])
    /\ Displayed(last.key[1]) = ParseUsize(last.data[1])[1]
    /\ Len(PagesFor(last.key[1])[Displayed(last.key[1]) + 1].additionals) >= 2

\* ------------------------------------------------ reading the groups
\* The group index a group-switch payload names: on_callback drops the
\* first character and parses the rest (main.rs, line 144).
SwitchTarget(data) == IF Len(data) >= 1 THEN ParseUsize(Tail(data)) ELSE None

IsSwitchButton(b, label, target) ==
    /\ b.text = <<label>>
    /\ Head(b.callback_data) = "x"
    /\ SwitchTarget(b.callback_data) = Some(target)

\* A group without its last row.
Front(group) == SubSeq(group, 1, Len(group) - 1)

\* C11: build_keyboard(g) gives the navigation row followed by the rows of
\* group g when the page has both, the navigation row alone when group g
\* is absent, the rows of group g in order when there is no navigation
\* row, and nothing when there is neither.
C11_BuildKeyboard ==
    kb # None =>
        LET page == kb[1].page
            g == kb[1].index
            has_nav == page.page_keyboard # None
            has_group == g < Len(page.additionals)
        IN  /\ has_nav /\ has_group =>
                  kb[1].markup =
                      Some(<<page.page_keyboard[1]>> \o page.additionals[g + 1])
            /\ has_nav /\ ~has_group =>
                  kb[1].markup = Some(<<page.page_keyboard[1]>>)
            /\ ~has_nav /\ has_group /\ page.additionals[g + 1] # <<>> =>
                  kb[1].markup = Some(page.additionals[g + 1])
            /\ ~has_nav /\ ~has_group => kb[1].markup = None

\* C11: build_keyboard(1) on a page with a navigation row and three groups,
\* the second of four rows.
C11_Witness ==
    /\ kb # None
    /\ kb[1].page.page_keyboard # None
    /\ kb[1].index = 1
    /\ Len(kb[1].page.additionals) = 3
    /\ Len(kb[1].page.additionals[2]) = 4
    /\ Len(kb[1].markup[1]) = 5

\* C12: after add_additional_pager on G groups, with G > 1, group 0 ends
\* with a row of one next-group button whose payload decodes to 1, group
\* G-1 with a row of one previous-group button whose payload decodes to
\* G-2, every group i between with a row of both, decoding to i+1 and i-1;
\* the rows before it are the jump rows as they were; every payload is the
\* marker followed by an index in 0..G-1.  With G <= 1 nothing is added.
C12_PagerRows ==
    paged =>
        LET G == Len(additionals)
        IN  IF G > 1
            THEN /\ \A i \in 0..(G - 1) :
                       LET control == additionals[i + 1][Len(additionals[i + 1])]
                       IN  /\ IF i = 0
                              THEN /\ Len(control) = 1
                                   /\ IsSwitchButton(control[1], "down", 1)
                              ELSE IF i = G - 1
                              THEN /\ Len(control) = 1
                                   /\ IsSwitchButton(control[1], "up", G - 2)
                              ELSE /\ Len(control) = 2
                                   /\ IsSwitchButton(control[1], "down", i + 1)
                                   /\ IsSwitchButton(control[2], "up", i - 1)
                           /\ \A k \in 1..Len(control) :
                                 SwitchTarget(control[k].callback_data)[1]
                                     \in 0..(G - 1)
                 /\ Concat([i \in 1..G |-> Front(additionals[i])], 1) = inserted
            ELSE Concat(additionals, 1) = inserted

\* C12: add_additional_pager has run on three groups.
C12_Witness ==
    /\ paged
    /\ Len(additionals) = 3
    /\ Len(additionals[2][Len(additionals[2])]) = 2

\* C14: while rows are added, every group but the last holds exactly 3
\* jump rows, the last from 1 to 3, the rows keep the order they came in,
\* and k rows make ceil(k/3) groups.
C14_GroupsOfThree ==
    ~paged =>
        LET G == Len(additionals)
            k == Len(inserted)
        IN  /\ G = (k + 2) \div 3
            /\ \A i \in 1..G :
                  IF i < G THEN Len(additionals[i]) = 3
                  ELSE Len(additionals[i]) \in 1..3
            /\ Concat(additionals, 1) = inserted

\* C14: seven rows were added: groups of 3, 3 and 1.
C14_Witness ==
    /\ ~paged
    /\ Len(inserted) = 7
    /\ Len(additionals) = 3
    /\ Len(additionals[3]) = 1

\* The pages of the lead part and of the table listings, 1-based.
LeadPages == 1..main_end

ListingPages == (main_end + 1)..Len(w.pages)

\* The page a back-to-main row leads to, if the row is one button with a
\* decimal payload.
BackTarget(group) ==
    IF Len(group) = 1 /\ Len(group[1]) = 1
    THEN ParseUsize(group[1][1].callback_data)
    ELSE None

BuiltFor(path) == (CHOOSE b \in Built : b[1] = path)[2]

\* One update, as the cache sees it: an entry that is there is neither
\* fetched again nor changed; an entry appears only in a /docs message that
\* fetched its path, and then it is the whole built Documentation.
CacheStep ==
    \A path \in Paths :
        /\ cached_docs[path] # None =>
              /\ cached_docs'[path] = cached_docs[path]
              /\ last'.fetched # Some(path)
        /\ (cached_docs[path] = None /\ cached_docs'[path] # None) =>
              /\ last'.kind = "message"
              /\ last'.fetched = Some(path)
              /\ cached_docs'[path] = Some(BuiltFor(path))

\* C15: a path's Documentation is built and put into the cache at most
\* once; once it is there no message and no callback fetches, rebuilds,
\* replaces or changes it; and what is put there is completely built.
C15_BuiltOnce == [][CacheStep]_vars

\* C15: a /docs message for a path that is in the cache was answered from
\* the cache (the reply carries the first page and no keyboard), without a
\* fetch.
C15_Witness ==
    /\ last.kind = "message"
    /\ last.fetched = None
    /\ last.request # None
    /\ \E path \in Paths :
          /\ cached_docs[path] # None
          /\ Len(cached_docs[path][1].pages) >= 2
          /\ last.request[1].text = Some(cached_docs[path][1].pages[1].text)
          /\ last.request[1].keyboard = None

\* ------------------------------------------------- reading the loops
\* A step of one of the two loops that handles a unit which is not the
\* first on its page.
LaterUnitStep ==
    /\ pc \in {"paras", "rows"}
    /\ pc' = pc
    /\ document' # document
    /\ counter > 0

\* The unit such a step handles, written alone into an empty buffer.
UnitAlone ==
    IF pc = "paras"
    THEN LET contents ==
                document'.description[Len(document'.description)].contents
         IN  WriteParagraph(Scratch(w, title, counter), contents[Len(contents)])
    ELSE LET rows == document'.items[Len(document'.items)].kind[2]
         IN  WriteItemRow(Scratch(w, title, counter), rows[Len(rows)])

\* The unit was joined onto the page in progress.
Joined ==
    /\ Len(w'.pages) = Len(w.pages)
    /\ w'.buffer = w.buffer \o <<NL>> \o UnitAlone.buffer

JoinRule ==
    LaterUnitStep =>
        (Joined <=> TextLen(w.buffer) + 1 + TextLen(UnitAlone.buffer) <= w.limit)

\* C16: a unit that is not the first on its page is joined onto the page
\* with one line break exactly when the length of the page so far, plus 1,
\* plus the length of the unit is within the budget; otherwise the page
\* breaks.
C16_JoinIffFits == [][JoinRule]_vars

\* The title the loops were given for section s (s >= 1).
SectionTitle(s) ==
    IF s <= MaxDescs
    THEN HeadingOf(document.description[s], document.title)
    ELSE document.items[s - MaxDescs].heading

\* A title as write_title renders it.
TitleText(t) == WriteTitle(New(<<>>), t).buffer

\* `text` is the title, two line breaks, and then something that is no
\* line break.
OpensWithTitle(text, t) ==
    LET n == Len(TitleText(t))
    IN  /\ Len(text) >= n + 3
        /\ SubSeq(text, 1, n) = TitleText(t)
        /\ text[n + 1] = NL
        /\ text[n + 2] = NL
        /\ text[n + 3] # NL

\* The pages (1-based) write_paragraphs and write_item_rows have sealed.
LoopPages == { i \in 1..Len(w.pages) : i <= Len(sec_of) /\ sec_of[i] > 0 }

\* C17: every page the loops produce, the first of a section and every one
\* started by a page break, begins with the section's title, exactly two
\* line breaks and the page's first unit.
C17_TitleAndTwoBreaks ==
    \A i \in LoopPages :
        OpensWithTitle(w.pages[i].text, SectionTitle(sec_of[i]))

\* ------------------------------------------------- reading the styles
\* The styles around each text of a run, as the run's BeginStyle / EndStyle
\* pairs enclose it: a sequence of <<id, styles>>, styles the enclosing
\* styles from the outermost in.  `open` is the styles open on entry.
RECURSIVE Enclosing(_, _)
Enclosing(run, open) ==
    IF Len(run) = 0 THEN <<>>
    ELSE LET part == Head(run)
         IN  CASE part[1] = "Text" ->
                    << <<part[2], open>> >> \o Enclosing(Tail(run), open)
               [] part[1] = "BeginStyle" ->
                    Enclosing(Tail(run), Append(open, part[2]))
               [] part[1] = "EndStyle" ->
                    Enclosing(Tail(run), SubSeq(open, 1, Len(open) - 1))
               [] OTHER -> Enclosing(Tail(run), open)

\* The same for a unit: the items of a list one after the other, a code
\* block inside Monospaced, the name and the summary of a row.
ParagraphEnclosing(paragraph) ==
    CASE paragraph[1] = "Text" -> Enclosing(paragraph[2], <<>>)
      [] paragraph[1] = "List" ->
            Concat([i \in 1..Len(paragraph[2]) |->
                      Enclosing(paragraph[2][i], <<>>)], 1)
      [] paragraph[1] = "Code" -> Enclosing(paragraph[2], << <<"Monospaced">> >>)

RowEnclosing(row) == Enclosing(row.name, <<>>) \o Enclosing(row.summary, <<>>)

\* For every unit text the Document consumed so far asks for.
DocumentEnclosing ==
    Concat([i \in 1..Len(document.description) |->
              Concat([k \in 1..Len(document.description[i].contents) |->
                        ParagraphEnclosing(document.description[i].contents[k])],
                     1)], 1)
    \o Concat([j \in 1..Len(document.items) |->
                 IF document.items[j].kind[1] = "Table"
                 THEN Concat([k \in 1..Len(document.items[j].kind[2]) |->
                                RowEnclosing(document.items[j].kind[2][k])], 1)
                 ELSE <<>>], 1)

\* The tags open around each unit text of a rendered text: a sequence of
\* <<id, tags>>, tags the names of the open tags from the outermost in.
RECURSIVE OpenAround(_, _)
OpenAround(text, open) ==
    IF Len(text) = 0 THEN <<>>
    ELSE LET tok == Head(text)
         IN  CASE tok[1] = "open" ->
                    OpenAround(Tail(text), Append(open, tok[2][1]))
               [] tok[1] = "close" ->
                    OpenAround(Tail(text), SubSeq(open, 1, Len(open) - 1))
               [] IsUnitText(tok) ->
                    << <<tok[2], open>> >> \o OpenAround(Tail(text), open)
               [] OTHER -> OpenAround(Tail(text), open)

HeldAround == Concat([i \in 1..Len(Held) |-> OpenAround(Held[i], <<>>)], 1)

IsMonospaced(style) == style[1] = "Monospaced"

InSeq(x, seq) == \E i \in 1..Len(seq) : seq[i] = x

\* C18: every text inside a Monospaced span, styled further inside the
\* span or not, is rendered between <code> and </code>, and with no other
\* tag open around it.
C18_CodeSpans ==
    \A n \in 1..Len(DocumentEnclosing) :
        InSeq(<<"Monospaced">>, DocumentEnclosing[n][2]) =>
            /\ HeldAround[n][1] = DocumentEnclosing[n][1]
            /\ HeldAround[n][2] = <<"code">>

\* The tag apply_style opens for a style outside code-mode, if any: a link
\* that does not resolve opens none.
TagsOf(style) ==
    CASE style[1] = "Bold" -> <<"b">>
      [] style[1] = "Italic" -> <<"i">>
      [] style[1] = "Underline" -> <<"u">>
      [] style[1] = "Strikethrough" -> <<"s">>
      [] style[1] = "Link" -> IF UrlParse(style[2]) # None THEN <<"a">> ELSE <<>>
      [] style[1] = "Monospaced" -> <<"code">>

Tags(styles) == Concat([i \in 1..Len(styles) |-> TagsOf(styles[i])], 1)

\* The units (section, position) that have text inside a Monospaced span.
CodeUnits ==
    { <<DocumentEnclosing[n][1][2], DocumentEnclosing[n][1][3]>> :
        n \in { m \in 1..Len(DocumentEnclosing) :
                   InSeq(<<"Monospaced">>, DocumentEnclosing[m][2]) } }

\* C19: in a unit without code span, every text is rendered inside the
\* styles that enclose it, a link that does not resolve left out: such a
\* link and its EndStyle change nothing for the styles around them.
C19_LinkIsNoOp ==
    \A n \in 1..Len(DocumentEnclosing) :
        LET id == DocumentEnclosing[n][1]
        IN  <<id[2], id[3]>> \notin CodeUnits =>
                HeldAround[n] = <<id, Tags(DocumentEnclosing[n][2])>>

\* ------------------------------------------------- reading the breaks
\* Where the texts of unit (s, k) stand in a rendered text.
UnitAt(text, s, k) ==
    { i \in 1..Len(text) :
        IsUnitText(text[i]) /\ text[i][2][2] = s /\ text[i][2][3] = k }

Min(S) == CHOOSE x \in S : \A y \in S : x <= y

Max(S) == CHOOSE x \in S : \A y \in S : x >= y

\* The line breaks between the first and the last text of unit (s, k) in
\* what the writer holds.
BreaksWithin(s, k) ==
    LET text == CHOOSE t \in { Held[i] : i \in 1..Len(Held) } :
                    UnitAt(t, s, k) # {}
        at == UnitAt(text, s, k)
    IN  Cardinality({ i \in Min(at)..Max(at) : text[i] = NL })

\* The line breaks a unit calls for: one between consecutive items of a
\* list, one between the name and the summary of a row.
BreaksOfParagraph(paragraph) ==
    IF paragraph[1] = "List" THEN Len(paragraph[2]) - 1 ELSE 0

\* C20: every unit, over the budget or under it, is in the page text with
\* the line breaks it calls for.
C20_BreaksKept ==
    /\ \A s \in 1..Len(document.description) :
          \A k \in 1..Len(document.description[s].contents) :
              BreaksWithin(s, k) =
                  BreaksOfParagraph(document.description[s].contents[k])
    /\ \A j \in 1..Len(document.items) :
          document.items[j].kind[1] = "Table" =>
              \A k \in 1..Len(document.items[j].kind[2]) :
                  BreaksWithin(MaxDescs + j, k) = 1

\* ------------------------------------------------ reading the replies
\* The update handled last was a /docs message answered from the cache with
\* the first page of the Documentation of `path`.
AnsweredFromCache(path) ==
    /\ last.kind = "message"
    /\ last.fetched = None
    /\ last.request # None
    /\ cached_docs[path] # None
    /\ last.request[1].text = Some(cached_docs[path][1].pages[1].text)

\* C21: a /docs message for a path in the cache is answered as a fresh one
\* is: with the first page's text and its build_keyboard(0), and, once the
\* reply is delivered, with a session {path, page 0} for the reply.
C21_CachedServedAlike ==
    \A path \in Paths :
        AnsweredFromCache(path) =>
            /\ last.request[1].keyboard =
                  BuildKeyboard(cached_docs[path][1].pages[1], 0)
            /\ last.delivered =>
                  sessions[last.key[1]] = Some([page |-> 0, path |-> path])

\* C22: a built Documentation has at least one page, so that index 0 is in
\* range.
C22_AtLeastOnePage == pc = "done" => Len(w.pages) >= 1

\* ------------------------------------------------ reading the jump rows
\* The jump-to-listing rows of the lead part's groups, in order.
JumpRows ==
    SelectSeq(Concat(main_additionals, 1),
              LAMBDA row : row[1].text[1] = "listing")

\* The section whose heading a jump row shows.
JumpSection(row) == row[1].text[2][1][2][2]

\* The table listings of the Document, as sections.
TableSections ==
    { MaxDescs + j : j \in { i \in 1..Len(document.items) :
                                document.items[i].kind[1] = "Table" } }

\* C23: every table listing has a jump row, and the payload of the row is
\* the index of a page, the first one the listing produced.
C23_JumpToFirstPage ==
    pc = "done" =>
        /\ { JumpSection(JumpRows[n]) : n \in 1..Len(JumpRows) } = TableSections
        /\ \A n \in 1..Len(JumpRows) :
              LET target == ParseUsize(JumpRows[n][1].callback_data)
              IN  /\ target # None
                  /\ target[1] < Len(w.pages)
                  /\ sec_of[target[1] + 1] = JumpSection(JumpRows[n])
                  /\ target[1] > 0 =>
                        sec_of[target[1]] # JumpSection(JumpRows[n])

\* ------------------------------------------------ reading the keyboards
\* The pages (0-based) a reader can bring the first reply to display.
ReachablePages ==
    { shown.page : shown \in Reachable(w.pages, {}, {FirstReply(w.pages)}) }

\* C24: in a built Documentation every page can be displayed by pressing,
\* from the first reply on, buttons of the keyboard displayed.
C24_AllReachable ==
    (pc = "done" /\ Len(w.pages) >= 1) =>
        ReachablePages = 0..(Len(w.pages) - 1)

\* ------------------------------------------------ reading the commands
\* The update handled last was a /docs command whose argument is empty or
\* whitespace.
BareDocs ==
    /\ last.kind = "message"
    /\ last.text # None
    /\ last.text[1].label = "/docs"
    /\ Trim(last.text[1].rest) = <<>>

\* C25: try_from gives Empty for an empty or whitespace-only item path, and
\* /docs without argument is answered with the usage message, without a
\* fetch, a cache entry or a session.
C25_EmptyIsUsage ==
    BareDocs =>
        /\ TryFrom(last.text[1].rest) = ErrEmpty
        /\ last.request = Some(SendMessage(Reply("Usage: /docs <item path>"),
                                           None))
        /\ last.fetched = None
        /\ \A path \in Paths : cached_docs[path] = None
        /\ \A key \in Keys : sessions[key] = None

\* ------------------------------------------------- reading the stack
\* The runs the writer is given for a unit: a code block is written as a
\* run inside Monospaced (docs.rs, lines 385-387).
ParagraphRuns(paragraph) ==
    CASE paragraph[1] = "Text" -> { paragraph[2] }
      [] paragraph[1] = "List" ->
            { paragraph[2][i] : i \in 1..Len(paragraph[2]) }
      [] paragraph[1] = "Code" ->
            { << B(<<"Monospaced">>) >> \o paragraph[2] \o << E >> }

DocumentRuns ==
    UNION { UNION { ParagraphRuns(document.description[s].contents[k]) :
                      k \in 1..Len(document.description[s].contents) } :
            s \in 1..Len(document.description) }
    \cup UNION { IF document.items[j].kind[1] = "Table"
                 THEN UNION { { document.items[j].kind[2][k].name,
                                document.items[j].kind[2][k].summary } :
                              k \in 1..Len(document.items[j].kind[2]) }
                 ELSE {} :
                 j \in 1..Len(document.items) }

\* The writer after the first n parts of a run, written from between units.
WriterAt(run, n) == Write(New(<<>>), SubSeq(run, 1, n))

\* The parts of a run at which the writer enters code-mode.
CodeEntries(run) ==
    { i \in 1..Len(run) :
        ~WriterAt(run, i - 1).in_code /\ WriterAt(run, i).in_code }

\* The part at which the writer leaves the code-mode entered at part i.
CodeExit(run, i) ==
    CHOOSE j \in (i + 1)..Len(run) :
        /\ ~WriterAt(run, j).in_code
        /\ \A n \in i..(j - 1) : WriterAt(run, n).in_code

=============================================================================
